---- MODULE Spec2Model ----
(***************************************************************************)
(* Model of the nodejs-process demonstrations.                             *)
(*                                                                         *)
(*   Spec      the cache of memory-leak-example.md, "How to Fix Memory     *)
(*             Leaks": addToCache, addToCacheWithTTL, the 60 s cleanup     *)
(*             interval and the SIGINT handler, over one shared Map.       *)
(*             The source has no read operation; Get is taken from the     *)
(*             written specification.                                      *)
(*   LeakSpec  memory-leak-example.js: the /leak and /status routes, the   *)
(*             5 s monitor and the SIGINT handler.                         *)
(*   ServerSpec, ServerFairSpec                                            *)
(*             the demo server: its request handler, gracefulShutdown,     *)
(*             the server's close callback and the 10 s force timer.       *)
(*             ServerFairSpec adds that time passes and due timers fire.   *)
(*   PairSpec  the fixed cache run twice on the same calls: leakyCache     *)
(*             with the cleanup interval, shadow.cache without it.         *)
(*   MetricsSpec  memory-metrics-example.js: /allocate, /buffer, /status   *)
(*             and the 5 s monitor.                                        *)
(*                                                                         *)
(* A JavaScript Map is a sequence of entries in insertion order.  Time is  *)
(* Date.now() in abstract units; it never goes back.                       *)
(***************************************************************************)
EXTENDS Integers, Sequences, FiniteSets, TLC

\* Bounds of the model.
MaxTime == 3
\* MAX_CACHE_SIZE is 1000 in the source; the model scales it down.
MAX_CACHE_SIZE == 2
\* /leak requests handled, monitor callbacks run.
MaxLeaks == 3
MaxMonitorRuns == 2
\* Open client connections, calls of gracefulShutdown.
MaxConnections == 2
MaxTriggers == 2
\* /allocate requests handled.
MaxAllocs == 3
\* setTimeout(..., 10000), in seconds.
ForceCloseDelay == 10

Keys   == {"A", "B", "C"}
Values == {"v1", "v2"}
TTLs   == {1, 2}

NoKey    == "none"
NoValue  == "no value"
NotFound == "not found"

VARIABLES
    leakyCache,   \* the Map: a sequence of [key, value, hasExpires, expires]
    now,          \* Date.now()
    exitCode,     \* "running", or "exit 0" / "exit 1" after process.exit
    lastOp,       \* history: the operation that ran last, its key and, for
                  \* Get, what it returned
    live,         \* history: per key, the latest put (its value and, with a
                  \* ttl, its expiration) whose entry was not overwritten,
                  \* capacity-evicted or cleared since
    putLog,       \* history: the keys put so far, while the run is only
                  \* addToCache calls with distinct keys on the initial cache
    clearedSize,  \* history: the Map's size when the SIGINT handler cleared it
    response,     \* the response written last: its status and cacheSize, and
                  \* how often res.end was called for its request
    leakCount,    \* history: the /leak requests handled
    monitorRuns,  \* history: the monitor callbacks run
    listening,    \* the server accepts connections (it has its handle)
    connections,  \* the server's open connections
    closeListeners, \* callbacks given to server.close, waiting for 'close'
    forceTimers,  \* the armed force timers: seconds left, in arming order
    shutdownAge,  \* history: seconds since gracefulShutdown was first called
    shadow,       \* history: the Map the same calls give when the cleanup
                  \* interval never runs, and what Get returned on it
    objects,      \* the objects array of the memory-metrics demo
    allocCount    \* history: the /allocate requests handled

cacheHist  == <<live, putLog>>
leakVars   == <<leakCount, monitorRuns>>
serverVars == <<listening, connections, closeListeners, forceTimers, shutdownAge>>
extraVars  == <<shadow, objects, allocCount>>

vars == <<leakyCache, now, exitCode, lastOp, live, putLog, clearedSize,
          response, leakCount, monitorRuns,
          listening, connections, closeListeners, forceTimers, shutdownAge,
          shadow, objects, allocCount>>

Running == "running"
Exit0   == "exit 0"
Exit1   == "exit 1"

----------------------------------------------------------------------------
\* The JavaScript Map

MapSize(m) == Len(m)

MapHas(m, k) == \E i \in 1..Len(m) : m[i].key = k

MapIndex(m, k) == CHOOSE i \in 1..Len(m) : m[i].key = k

MapKeys(m) == [i \in 1..Len(m) |-> m[i].key]

\* A set that moves an existing key to the back of the insertion order.
MapSetMovesToBack(m, k, e) == Append(SelectSeq(m, LAMBDA x : x.key # k), e)

\* Map.prototype.set: an existing key keeps its place, a new key goes last.
MapSet(m, k, e) ==
    IF MapHas(m, k)
    THEN [m EXCEPT ![MapIndex(m, k)] = e]
    ELSE Append(m, e)

\* Map.prototype.delete: a key that is not there is left alone.
MapDelete(m, k) == SelectSeq(m, LAMBDA e : e.key # k)

\* A handler that exits without clearing.
MapClearForgotten(m) == m

\* A cleanup that drops the oldest entry only.
MapClearOldestOnly(m) == IF Len(m) = 0 THEN m ELSE Tail(m)

\* Map.prototype.clear
MapClear(m) == << >>

\* The last key in insertion order, taken for the oldest.
NewestKey(m) == IF Len(m) = 0 THEN NoKey ELSE m[Len(m)].key

\* leakyCache.keys().next().value: the first key in insertion order.
OldestKey(m) == IF Len(m) = 0 THEN NoKey ELSE m[1].key

\* The value addToCache stores: the caller's value as it is, no expires field.
RawEntry(k, v) == [key |-> k, value |-> v, hasExpires |-> FALSE, expires |-> 0]

\* An entry whose expires leaves the ttl out.
TTLEntryNoTtl(k, v, t, ttl) ==
    [key |-> k, value |-> v, hasExpires |-> TRUE, expires |-> t]

\* The value addToCacheWithTTL stores: { value, expires: Date.now() + ttlMs }.
TTLEntry(k, v, t, ttl) ==
    [key |-> k, value |-> v, hasExpires |-> TRUE, expires |-> t + ttl]

----------------------------------------------------------------------------
\* The operations on the cache, as functions of the Map

\* An addToCache that stores first and makes room afterwards.
AddToCacheMapEvictAfter(m, k, v) ==
    LET stored == MapSet(m, k, RawEntry(k, v))
    IN  IF MapSize(stored) >= MAX_CACHE_SIZE
        THEN MapDelete(stored, OldestKey(stored))
        ELSE stored

\* addToCache(key, value)
AddToCacheMap(m, k, v) ==
    LET evicted == IF MapSize(m) >= MAX_CACHE_SIZE
                   THEN MapDelete(m, OldestKey(m))
                   ELSE m
    IN  MapSet(evicted, k, RawEntry(k, v))

\* addToCacheWithTTL(key, value, ttlMs)
AddToCacheWithTTLMap(m, k, v, t, ttl) == MapSet(m, k, TTLEntry(k, v, t, ttl))

\* A cleanup test that also takes entries stored without an expires field.
SweepExpiredOrRaw(e, t) == ~e.hasExpires \/ e.expires < t

\* The cleanup interval's test, entry.expires < now; undefined < now is false.
SweepExpired(e, t) == e.hasExpires /\ e.expires < t

\* The cleanup interval's callback.
SweepMap(m, t) == SelectSeq(m, LAMBDA e : ~SweepExpired(e, t))

\* Get with the cleanup interval's strict test.
GetExpiredStrict(e, t) == e.hasExpires /\ e.expires < t

\* Get's test: the expiration has passed once now >= expiration.
GetExpired(e, t) == e.hasExpires /\ e.expires <= t

\* Get(key): the value, or "not found" for an absent or expired key.
GetResult(m, k, t) ==
    IF ~MapHas(m, k) THEN NotFound
    ELSE LET e == m[MapIndex(m, k)]
         IN  IF GetExpired(e, t) THEN NotFound ELSE e.value

\* A Get that, finding its entry expired, removes every expired entry.
GetMapSweepsAll(m, k, t) ==
    IF MapHas(m, k) /\ GetExpired(m[MapIndex(m, k)], t)
    THEN SelectSeq(m, LAMBDA e : ~GetExpired(e, t))
    ELSE m

\* Get(key): an expired entry is removed as a side effect.
GetMap(m, k, t) ==
    IF MapHas(m, k) /\ GetExpired(m[MapIndex(m, k)], t)
    THEN MapDelete(m, k)
    ELSE m

----------------------------------------------------------------------------
\* History

NoPut == [set |-> FALSE, value |-> NoValue, hasExpires |-> FALSE, expires |-> 0]

Op(o, k, r) == [op |-> o, key |-> k, ret |-> r]

\* The key addToCache evicts for capacity from m, NoKey when it evicts none.
EvictedKey(m) == IF MapSize(m) >= MAX_CACHE_SIZE THEN OldestKey(m) ELSE NoKey

NoLog == [ok |-> FALSE, keys |-> << >>]

NoResponse == [status |-> 0, cacheSize |-> 0, ends |-> 0]

\* The variables of the other programs, at rest.
NoCacheHist == live = [k \in Keys |-> NoPut] /\ putLog = NoLog
NoLeakDemo  == leakCount = 0 /\ monitorRuns = 0
NoServer    ==
    /\ listening = FALSE
    /\ connections = 0
    /\ closeListeners = 0
    /\ forceTimers = << >>
    /\ shutdownAge = 0

NoShadow == [cache |-> << >>, ret |-> NoValue]

NoExtras ==
    /\ shadow = NoShadow
    /\ objects = << >>
    /\ allocCount = 0

----------------------------------------------------------------------------
\* The fixed cache: state machine

Init ==
    /\ leakyCache = << >>
    /\ now = 0
    /\ exitCode = Running
    /\ lastOp = Op("start", NoKey, NoValue)
    /\ live = [k \in Keys |-> NoPut]
    /\ putLog = [ok |-> TRUE, keys |-> << >>]
    /\ clearedSize = 0
    /\ response = NoResponse
    /\ NoLeakDemo
    /\ NoServer
    /\ NoExtras

\* Date.now() moves on.
Tick ==
    /\ exitCode = Running
    /\ now < MaxTime
    /\ now' = now + 1
    /\ UNCHANGED <<leakyCache, exitCode, lastOp, cacheHist, clearedSize>>
    /\ UNCHANGED <<response, leakVars, serverVars>>
    /\ UNCHANGED extraVars

AddToCache(k, v) ==
    /\ exitCode = Running
    /\ leakyCache' = AddToCacheMap(leakyCache, k, v)
    /\ lastOp' = Op("addToCache", k, NoValue)
    /\ live' = [x \in Keys |->
                  IF x = k
                  THEN [set |-> TRUE, value |-> v, hasExpires |-> FALSE, expires |-> 0]
                  ELSE IF x = EvictedKey(leakyCache) THEN NoPut ELSE live[x]]
    /\ putLog' = IF putLog.ok /\ ~\E i \in 1..Len(putLog.keys) : putLog.keys[i] = k
                 THEN [ok |-> TRUE, keys |-> Append(putLog.keys, k)]
                 ELSE NoLog
    /\ UNCHANGED <<now, exitCode, clearedSize, response, leakVars, serverVars>>
    /\ UNCHANGED extraVars

AddToCacheWithTTL(k, v, ttl) ==
    /\ exitCode = Running
    /\ leakyCache' = AddToCacheWithTTLMap(leakyCache, k, v, now, ttl)
    /\ lastOp' = Op("addToCacheWithTTL", k, NoValue)
    /\ live' = [live EXCEPT ![k] =
                  [set |-> TRUE, value |-> v, hasExpires |-> TRUE, expires |-> now + ttl]]
    /\ putLog' = NoLog
    /\ UNCHANGED <<now, exitCode, clearedSize, response, leakVars, serverVars>>
    /\ UNCHANGED extraVars

Get(k) ==
    /\ exitCode = Running
    /\ leakyCache' = GetMap(leakyCache, k, now)
    /\ lastOp' = Op("get", k, GetResult(leakyCache, k, now))
    /\ UNCHANGED <<now, exitCode, cacheHist, clearedSize>>
    /\ UNCHANGED <<response, leakVars, serverVars>>
    /\ UNCHANGED extraVars

Sweep ==
    /\ exitCode = Running
    /\ leakyCache' = SweepMap(leakyCache, now)
    /\ lastOp' = Op("sweep", NoKey, NoValue)
    /\ UNCHANGED <<now, exitCode, cacheHist, clearedSize>>
    /\ UNCHANGED <<response, leakVars, serverVars>>
    /\ UNCHANGED extraVars

\* The SIGINT handler: leakyCache.clear(); process.exit(0).
Sigint ==
    /\ exitCode = Running
    /\ leakyCache' = MapClear(leakyCache)
    /\ exitCode' = Exit0
    /\ lastOp' = Op("clear", NoKey, NoValue)
    /\ live' = [k \in Keys |-> NoPut]
    /\ putLog' = NoLog
    /\ clearedSize' = MapSize(leakyCache)
    /\ UNCHANGED <<now, response, leakVars, serverVars>>
    /\ UNCHANGED extraVars

Next ==
    \/ Tick
    \/ \E k \in Keys, v \in Values : AddToCache(k, v)
    \/ \E k \in Keys, v \in Values, ttl \in TTLs : AddToCacheWithTTL(k, v, ttl)
    \/ \E k \in Keys : Get(k)
    \/ Sweep
    \/ Sigint

Spec == Init /\ [][Next]_vars

----------------------------------------------------------------------------
\* Claims about the fixed cache

HasExpiredEntry(m, k, t) ==
    MapHas(m, k) /\ m[MapIndex(m, k)].hasExpires /\ m[MapIndex(m, k)].expires <= t

Min(a, b) == IF a < b THEN a ELSE b

\* The last n elements of s (all of s when it is shorter).
LastN(s, n) == SubSeq(s, Len(s) - Min(n, Len(s)) + 1, Len(s))

InSeq(s, x) == \E i \in 1..Len(s) : s[i] = x

\* C1: in every reachable state the cache holds at most MAX_CACHE_SIZE entries.
C1_SizeWithinCapacity == MapSize(leakyCache) <= MAX_CACHE_SIZE

\* C2: a Get of a key whose entry has expiration <= now returns "not found",
\* whether or not a Sweep has run; a Get that returns a value returns that of
\* an entry whose expiration is still ahead.
C2_GetNeverReturnsExpired ==
    [][\A k \in Keys :
         Get(k) =>
           /\ HasExpiredEntry(leakyCache, k, now) => lastOp'.ret = NotFound
           /\ lastOp'.ret # NotFound =>
                /\ MapHas(leakyCache, k)
                /\ ~HasExpiredEntry(leakyCache, k, now)
                /\ lastOp'.ret = leakyCache[MapIndex(leakyCache, k)].value]_vars

\* C2 witness: a Get answered "not found" for an entry put with a ttl whose
\* expiration is exactly now; no Sweep removes such an entry, Get did.
C2_Witness ==
    /\ lastOp.op = "get"
    /\ lastOp.ret = NotFound
    /\ live[lastOp.key].set
    /\ live[lastOp.key].hasExpires
    /\ live[lastOp.key].expires = now
    /\ ~MapHas(leakyCache, lastOp.key)

\* C3: right after the cleanup callback has run at time now, no entry left in
\* the cache has expiration <= now.
C3_SweepLeavesNoExpired ==
    [][Sweep => \A k \in Keys : ~HasExpiredEntry(leakyCache', k, now')]_vars

C5_OverwriteKeepsSize ==
    [][\A k \in Keys, v \in Values :
         ((AddToCache(k, v) \/ \E ttl \in TTLs : AddToCacheWithTTL(k, v, ttl))
            /\ MapHas(leakyCache, k)) =>
           /\ MapSize(leakyCache') = MapSize(leakyCache)
           /\ GetResult(leakyCache', k, now') = v]_vars

\* C6: once the SIGINT handler has cleared the cache its size is 0 and Get of
\* every key is "not found".
C6_ClearEmpties ==
    lastOp.op = "clear" =>
      /\ MapSize(leakyCache) = 0
      /\ \A k \in Keys : GetResult(leakyCache, k, now) = NotFound

\* C6 witness: the handler cleared a cache that held entries.
C6_Witness == lastOp.op = "clear" /\ clearedSize > 0 /\ exitCode = Exit0

\* C7: while the entry of an addToCacheWithTTL(key, v, ttl) made at time t has
\* not been overwritten, capacity-evicted or cleared, Get(key) is v at every
\* time before t + ttl and "not found" at every time after t + ttl.
C7_TtlWindow ==
    \A k \in Keys :
      (live[k].set /\ live[k].hasExpires) =>
        /\ now < live[k].expires => GetResult(leakyCache, k, now) = live[k].value
        /\ now > live[k].expires => GetResult(leakyCache, k, now) = NotFound

\* C7 witness: a Get returned the value of a ttl entry, after time has moved
\* on since the put and before its expiration.
C7_Witness ==
    /\ lastOp.op = "get"
    /\ live[lastOp.key].set
    /\ live[lastOp.key].hasExpires
    /\ now = live[lastOp.key].expires - 1
    /\ now > 0
    /\ lastOp.ret = live[lastOp.key].value

\* A step that is a put of value v under key k, by either function.
PutStep(k, v) ==
    /\ lastOp'.key = k
    /\ \/ lastOp'.op = "addToCache" /\ AddToCache(k, v)
       \/ lastOp'.op = "addToCacheWithTTL"
            /\ \E ttl \in TTLs : AddToCacheWithTTL(k, v, ttl)

\* C11: a put (either function), in whatever state the cache is, does not stop
\* the process and leaves the key in the Map with the value put, which Get
\* returns at once; a Get of a key that is absent or whose
\* entry has expired returns "not found" and does not stop the process.
C11_PutNeverFails ==
    /\ [][\A k \in Keys, v \in Values :
            PutStep(k, v) =>
              /\ exitCode' = Running
              /\ MapHas(leakyCache', k)
              /\ leakyCache'[MapIndex(leakyCache', k)].value = v
              /\ GetResult(leakyCache', k, now') = v]_vars
    /\ [][\A k \in Keys :
            (lastOp'.key = k /\ lastOp'.op = "get" /\ Get(k)
               /\ (~MapHas(leakyCache, k) \/ HasExpiredEntry(leakyCache, k, now))) =>
              /\ lastOp'.ret = NotFound
              /\ exitCode' = Running]_vars

\* C11 witness: addToCache has just stored a key in a Map that is over its
\* capacity and still holds an expired entry of another key.
C11_Witness ==
    /\ lastOp.op = "addToCache"
    /\ MapHas(leakyCache, lastOp.key)
    /\ MapSize(leakyCache) > MAX_CACHE_SIZE
    /\ \E x \in Keys \ {lastOp.key} :
         HasExpiredEntry(leakyCache, x, now) /\ live[x].expires < now

\* A step that is a put of key k which the Map already holds.
OverwriteStep(k) ==
    /\ MapHas(leakyCache, k)
    /\ \E v \in Values : PutStep(k, v)

\* C13 as stated: a put of a key that is present moves the key to the back of
\* the eviction order, as a fresh insertion would.
C13_OverwriteMovesToBack ==
    [][\A k \in Keys :
         OverwriteStep(k) => NewestKey(leakyCache') = k]_vars

\* C13 amended: a put of a key that is present leaves the key at its place in
\* the insertion order; the keys change only in that addToCache on a Map of
\* MAX_CACHE_SIZE entries or more first deletes the oldest key, so the key moves
\* to the back exactly when it was that oldest key itself.
C13_OverwriteKeepsPlace ==
    [][\A k \in Keys :
         OverwriteStep(k) =>
           MapKeys(leakyCache') =
             IF lastOp'.op = "addToCache" /\ MapSize(leakyCache) >= MAX_CACHE_SIZE
             THEN IF OldestKey(leakyCache) = k
                  THEN Append(Tail(MapKeys(leakyCache)), k)
                  ELSE Tail(MapKeys(leakyCache))
             ELSE MapKeys(leakyCache)]_vars

\* C13 witness: a key was put again and is not at the back of the order: it is
\* the oldest key still, with another key behind it.
C13_Witness ==
    /\ lastOp.op \in {"addToCache", "addToCacheWithTTL"}
    /\ MapSize(leakyCache) >= MAX_CACHE_SIZE
    /\ OldestKey(leakyCache) = lastOp.key
    /\ NewestKey(leakyCache) # lastOp.key

\* The keys a step takes out of the Map.
RemovedKeys == {x \in Keys : MapHas(leakyCache, x) /\ ~MapHas(leakyCache', x)}

\* C14: a step that takes keys out of the Map is the SIGINT handler's clear, or
\* a Get or cleanup callback taking out expired entries only, or a put issued
\* when the size equals MAX_CACHE_SIZE, which takes out exactly one key.
C14_EvictionOnlyWhenFull ==
    [][RemovedKeys # {} =>
         \/ lastOp'.op = "clear"
         \/ /\ lastOp'.op \in {"get", "sweep"}
            /\ \A x \in RemovedKeys : HasExpiredEntry(leakyCache, x, now)
         \/ /\ lastOp'.op \in {"addToCache", "addToCacheWithTTL"}
            /\ MapSize(leakyCache) = MAX_CACHE_SIZE
            /\ Cardinality(RemovedKeys) = 1]_vars

\* C15: Get(key) on a key whose entry has expired takes exactly that entry out
\* and leaves every other entry, with its value and expiration, at its place;
\* Get on a key that is absent or not expired leaves the Map as it was.
C15_GetFrame ==
    [][\A k \in Keys :
         (lastOp'.key = k /\ lastOp'.op = "get" /\ Get(k)) =>
           IF HasExpiredEntry(leakyCache, k, now)
           THEN LET i == MapIndex(leakyCache, k)
                IN  leakyCache' = SubSeq(leakyCache, 1, i - 1)
                                    \o SubSeq(leakyCache, i + 1, Len(leakyCache))
           ELSE leakyCache' = leakyCache]_vars

\* C15 witness: a Get took the expired entry of its key out while the expired
\* entry of another key stayed in the Map.
C15_Witness ==
    /\ lastOp.op = "get"
    /\ lastOp.ret = NotFound
    /\ live[lastOp.key].set
    /\ live[lastOp.key].hasExpires
    /\ live[lastOp.key].expires <= now
    /\ ~MapHas(leakyCache, lastOp.key)
    /\ \E x \in Keys \ {lastOp.key} : HasExpiredEntry(leakyCache, x, now)

----------------------------------------------------------------------------
\* The fixed cache run twice on the same calls: leakyCache with the cleanup
\* interval running at any points, shadow.cache with the interval never run

\* The values put in the two runs; the runs are compared on the keys they hold.
PairValues == {"v1"}

PairInit ==
    /\ leakyCache = << >>
    /\ now = 0
    /\ exitCode = Running
    /\ lastOp = Op("start", NoKey, NoValue)
    /\ shadow = NoShadow
    /\ objects = << >>
    /\ allocCount = 0
    /\ clearedSize = 0
    /\ response = NoResponse
    /\ NoCacheHist
    /\ NoLeakDemo
    /\ NoServer

PairRest == <<cacheHist, clearedSize, response, leakVars, serverVars, objects, allocCount>>

PairTick ==
    /\ exitCode = Running
    /\ now < MaxTime
    /\ now' = now + 1
    /\ UNCHANGED <<leakyCache, shadow, exitCode, lastOp, PairRest>>

PairAddToCache(k, v) ==
    /\ exitCode = Running
    /\ leakyCache' = AddToCacheMap(leakyCache, k, v)
    /\ shadow' = [cache |-> AddToCacheMap(shadow.cache, k, v), ret |-> NoValue]
    /\ lastOp' = Op("addToCache", k, NoValue)
    /\ UNCHANGED <<now, exitCode, PairRest>>

PairAddToCacheWithTTL(k, v, ttl) ==
    /\ exitCode = Running
    /\ leakyCache' = AddToCacheWithTTLMap(leakyCache, k, v, now, ttl)
    /\ shadow' = [cache |-> AddToCacheWithTTLMap(shadow.cache, k, v, now, ttl),
                  ret |-> NoValue]
    /\ lastOp' = Op("addToCacheWithTTL", k, NoValue)
    /\ UNCHANGED <<now, exitCode, PairRest>>

PairGet(k) ==
    /\ exitCode = Running
    /\ leakyCache' = GetMap(leakyCache, k, now)
    /\ lastOp' = Op("get", k, GetResult(leakyCache, k, now))
    /\ shadow' = [cache |-> GetMap(shadow.cache, k, now),
                  ret |-> GetResult(shadow.cache, k, now)]
    /\ UNCHANGED <<now, exitCode, PairRest>>

\* The cleanup callback runs in the first run only.
PairSweep ==
    /\ exitCode = Running
    /\ leakyCache' = SweepMap(leakyCache, now)
    /\ lastOp' = Op("sweep", NoKey, NoValue)
    /\ UNCHANGED <<shadow, now, exitCode, PairRest>>

PairSigint ==
    /\ exitCode = Running
    /\ leakyCache' = MapClear(leakyCache)
    /\ shadow' = [cache |-> MapClear(shadow.cache), ret |-> NoValue]
    /\ exitCode' = Exit0
    /\ lastOp' = Op("clear", NoKey, NoValue)
    /\ UNCHANGED <<now, PairRest>>

PairNext ==
    \/ PairTick
    \/ \E k \in Keys, v \in PairValues : PairAddToCache(k, v)
    \/ \E k \in Keys, v \in PairValues, ttl \in TTLs : PairAddToCacheWithTTL(k, v, ttl)
    \/ \E k \in Keys : PairGet(k)
    \/ PairSweep
    \/ PairSigint

PairSpec == PairInit /\ [][PairNext]_vars

\* C16 as stated: every Get returns the same in the run with cleanup callbacks
\* as in the run of the same calls without them.
C16_GetIgnoresSweep == lastOp.op = "get" => lastOp.ret = shadow.ret

\* C16 amended: a cleanup callback changes the result of no Get issued at that
\* moment: for every key, Get right after the callback returns what Get right
\* before it would have returned.
C16_SweepKeepsGetResults ==
    [][PairSweep =>
         \A k \in Keys :
           GetResult(leakyCache', k, now') = GetResult(leakyCache, k, now)]_vars

\* C16 witness: a cleanup callback has taken an expired entry out which the
\* run without callbacks still holds.
C16_Witness ==
    /\ lastOp.op = "sweep"
    /\ \E k \in Keys :
         /\ HasExpiredEntry(shadow.cache, k, now)
         /\ ~MapHas(leakyCache, k)

----------------------------------------------------------------------------
\* The leak demo (memory-leak-example.js)

\* Math.random().toString(36).repeat(1000)
RandomData == {"r1", "r2"}

\* The data createMemoryLeak stores; the key is Date.now().
LeakEntry(t, r) == [key |-> t, value |-> [timestamp |-> t, randomData |-> r]]

\* A createMemoryLeak that makes room first, as addToCache does.
CreateMemoryLeakBounded(m, t, r) ==
    LET evicted == IF MapSize(m) >= MAX_CACHE_SIZE
                   THEN MapDelete(m, OldestKey(m))
                   ELSE m
    IN  MapSet(evicted, t, LeakEntry(t, r))

\* createMemoryLeak(): leakyCache.set(Date.now(), data).
CreateMemoryLeak(m, t, r) == MapSet(m, t, LeakEntry(t, r))

LeakInit ==
    /\ leakyCache = << >>
    /\ now = 0
    /\ exitCode = Running
    /\ lastOp = Op("start", NoKey, NoValue)
    /\ clearedSize = 0
    /\ response = NoResponse
    /\ leakCount = 0
    /\ monitorRuns = 0
    /\ NoCacheHist
    /\ NoServer
    /\ NoExtras

LeakTick ==
    /\ exitCode = Running
    /\ now < MaxTime
    /\ now' = now + 1
    /\ UNCHANGED <<leakyCache, exitCode, lastOp, cacheHist, clearedSize>>
    /\ UNCHANGED <<response, leakVars, serverVars>>
    /\ UNCHANGED extraVars

\* GET /leak
RequestLeak(r) ==
    /\ exitCode = Running
    /\ leakCount < MaxLeaks
    /\ leakyCache' = CreateMemoryLeak(leakyCache, now, r)
    /\ response' = [status |-> 200, cacheSize |-> MapSize(leakyCache'), ends |-> 1]
    /\ leakCount' = leakCount + 1
    /\ lastOp' = Op("/leak", NoKey, NoValue)
    /\ UNCHANGED <<now, exitCode, cacheHist, clearedSize, monitorRuns, serverVars>>
    /\ UNCHANGED extraVars

\* GET /status
RequestStatus ==
    /\ exitCode = Running
    /\ response' = [status |-> 200, cacheSize |-> MapSize(leakyCache), ends |-> 1]
    /\ lastOp' = Op("/status", NoKey, NoValue)
    /\ UNCHANGED <<leakyCache, now, exitCode, cacheHist, clearedSize>>
    /\ UNCHANGED <<leakVars, serverVars>>
    /\ UNCHANGED extraVars

\* Any other URL: 404, empty body.
RequestOther ==
    /\ exitCode = Running
    /\ response' = [status |-> 404, cacheSize |-> 0, ends |-> 1]
    /\ lastOp' = Op("other", NoKey, NoValue)
    /\ UNCHANGED <<leakyCache, now, exitCode, cacheHist, clearedSize>>
    /\ UNCHANGED <<leakVars, serverVars>>
    /\ UNCHANGED extraVars

\* The 5 s monitor: logs the memory usage and the cache size.
MonitorTick ==
    /\ exitCode = Running
    /\ monitorRuns < MaxMonitorRuns
    /\ monitorRuns' = monitorRuns + 1
    /\ lastOp' = Op("monitor", NoKey, NoValue)
    /\ UNCHANGED <<leakyCache, now, exitCode, cacheHist, clearedSize>>
    /\ UNCHANGED <<response, leakCount, serverVars>>
    /\ UNCHANGED extraVars

\* The SIGINT handler: leakyCache.clear(); process.exit(0).
LeakSigint ==
    /\ exitCode = Running
    /\ leakyCache' = MapClear(leakyCache)
    /\ exitCode' = Exit0
    /\ clearedSize' = MapSize(leakyCache)
    /\ lastOp' = Op("SIGINT", NoKey, NoValue)
    /\ UNCHANGED <<now, cacheHist, response, leakVars, serverVars>>
    /\ UNCHANGED extraVars

LeakNext ==
    \/ LeakTick
    \/ \E r \in RandomData : RequestLeak(r)
    \/ RequestStatus
    \/ RequestOther
    \/ MonitorTick
    \/ LeakSigint

LeakSpec == LeakInit /\ [][LeakNext]_vars

\* C8: at process exit the cache is empty, and once the SIGINT handler has
\* run no monitor callback runs and nothing else changes.
C8_ShutdownClearsAndStops ==
    [][/\ exitCode' # Running => MapSize(leakyCache') = 0
       /\ exitCode # Running => monitorRuns' = monitorRuns /\ leakyCache' = leakyCache]_vars

\* C8 witness: SIGINT arrived when the monitor had run and the cache held
\* entries; the process has exited.
C8_Witness ==
    /\ exitCode = Exit0
    /\ lastOp.op = "SIGINT"
    /\ clearedSize > 0
    /\ monitorRuns > 0

\* C9: before SIGINT the cache holds as many entries as /leak requests were
\* handled, and the response to the n-th /leak request reports cacheSize n.
C9_EveryLeakAddsAnEntry ==
    exitCode = Running =>
      /\ MapSize(leakyCache) = leakCount
      /\ lastOp.op = "/leak" => response.cacheSize = leakCount

\* C17: while the process runs no step takes a key out of the cache or moves
\* it, so the size never decreases; /status, other URLs and the monitor leave
\* the cache as it is; a step that makes the cache smaller is the SIGINT
\* handler.
C17_LeakNeverShrinks ==
    [][/\ exitCode' = Running =>
            /\ MapSize(leakyCache') >= MapSize(leakyCache)
            /\ \A i \in 1..Len(leakyCache) : leakyCache'[i].key = leakyCache[i].key
       /\ (RequestStatus \/ RequestOther \/ MonitorTick) => leakyCache' = leakyCache
       /\ MapSize(leakyCache') < MapSize(leakyCache) => LeakSigint]_vars

\* C17 witness: /status has answered with the size of a cache of more entries
\* than the fixed version's MAX_CACHE_SIZE, after the monitor has run.
C17_Witness ==
    /\ exitCode = Running
    /\ lastOp.op = "/status"
    /\ monitorRuns > 0
    /\ MapSize(leakyCache) > MAX_CACHE_SIZE
    /\ response.cacheSize = MapSize(leakyCache)

----------------------------------------------------------------------------
\* The demo server: request handler and graceful shutdown

Urls == {"/", "/about", "/api/status", "/nonexistent"}

Signals == {"SIGTERM", "SIGINT", "uncaughtException", "unhandledRejection"}

\* The request handler's switch on req.url; the catch block answers 500.
StatusFor(url, throws) ==
    IF throws THEN 500
    ELSE IF url \in {"/", "/about", "/api/status"} THEN 200
    ELSE 404

\* res.end in the try block: each branch of the switch calls it once, as its
\* last statement; a throw before it skips it.
TryEnds(url, throws) == IF throws THEN 0 ELSE 1

\* A catch block that logs the error and sends nothing.
CatchLogsOnly(throws) == 0

\* res.end in the catch block, run only when the try block threw.
CatchEnds(throws) == IF throws THEN 1 ELSE 0

\* The res.end calls of one run of the request handler.
EndCalls(url, throws) == TryEnds(url, throws) + CatchEnds(throws)

\* gracefulShutdown that arms no timer.
ArmNoTimer(timers) == timers

\* A gracefulShutdown that cancels the timer armed before and starts anew.
ArmForceTimerAnew(timers) == <<ForceCloseDelay>>

\* setTimeout(() => process.exit(1), 10000)
ArmForceTimer(timers) == Append(timers, ForceCloseDelay)

\* One second passes on every armed timer.
Elapse(timers) == [i \in 1..Len(timers) |-> timers[i] - 1]

TimerDue(timers) == \E i \in 1..Len(timers) : timers[i] = 0

\* The callback given to server.close: process.exit(0).
CloseCallbackExit == Exit0

\* The force timer's callback: process.exit(1).
ForceTimerExit == Exit1

ServerInit ==
    /\ leakyCache = << >>
    /\ now = 0
    /\ exitCode = Running
    /\ lastOp = Op("start", NoKey, NoValue)
    /\ clearedSize = 0
    /\ response = NoResponse
    /\ listening = TRUE
    /\ connections = 0
    /\ closeListeners = 0
    /\ forceTimers = << >>
    /\ shutdownAge = 0
    /\ NoCacheHist
    /\ NoLeakDemo
    /\ NoExtras

\* A client connects; the server takes connections only while it listens.
Connect ==
    /\ exitCode = Running
    /\ listening
    /\ connections < MaxConnections
    /\ connections' = connections + 1
    /\ lastOp' = Op("connect", NoKey, NoValue)
    /\ UNCHANGED <<leakyCache, now, exitCode, cacheHist, clearedSize, response>>
    /\ UNCHANGED <<leakVars, listening, closeListeners, forceTimers, shutdownAge>>
    /\ UNCHANGED extraVars

\* A request on an open connection runs the handler, which ends the response.
Request(url, throws) ==
    /\ exitCode = Running
    /\ connections > 0
    /\ response' = [status |-> StatusFor(url, throws), cacheSize |-> 0,
                    ends |-> EndCalls(url, throws)]
    /\ lastOp' = Op("request", url, NoValue)
    /\ UNCHANGED <<leakyCache, now, exitCode, cacheHist, clearedSize>>
    /\ UNCHANGED <<leakVars, serverVars>>
    /\ UNCHANGED extraVars

\* A connection ends.
ConnectionEnd ==
    /\ exitCode = Running
    /\ connections > 0
    /\ connections' = connections - 1
    /\ lastOp' = Op("connectionEnd", NoKey, NoValue)
    /\ UNCHANGED <<leakyCache, now, exitCode, cacheHist, clearedSize, response>>
    /\ UNCHANGED <<leakVars, listening, closeListeners, forceTimers, shutdownAge>>
    /\ UNCHANGED extraVars

\* gracefulShutdown(signal): server.close(callback), then the force timer.
GracefulShutdown(signal) ==
    /\ exitCode = Running
    /\ closeListeners < MaxTriggers
    /\ listening' = FALSE
    /\ closeListeners' = closeListeners + 1
    /\ forceTimers' = ArmForceTimer(forceTimers)
    /\ lastOp' = Op("gracefulShutdown", signal, NoValue)
    /\ UNCHANGED <<leakyCache, now, exitCode, cacheHist, clearedSize, response>>
    /\ UNCHANGED <<leakVars, connections, shutdownAge>>
    /\ UNCHANGED extraVars

\* The server emits 'close' once it has stopped listening and its last
\* connection has ended; the callback given to server.close exits.
ServerClosed ==
    /\ exitCode = Running
    /\ ~listening
    /\ connections = 0
    /\ closeListeners > 0
    /\ exitCode' = CloseCallbackExit
    /\ lastOp' = Op("closeCallback", NoKey, NoValue)
    /\ UNCHANGED <<leakyCache, now, cacheHist, clearedSize, response>>
    /\ UNCHANGED <<leakVars, serverVars>>
    /\ UNCHANGED extraVars

\* A second passes; a due timer fires before time moves on.
TimePasses ==
    /\ exitCode = Running
    /\ Len(forceTimers) > 0
    /\ ~TimerDue(forceTimers)
    /\ forceTimers' = Elapse(forceTimers)
    /\ shutdownAge' = shutdownAge + 1
    /\ UNCHANGED <<leakyCache, now, exitCode, lastOp, cacheHist, clearedSize>>
    /\ UNCHANGED <<response, leakVars, listening, connections, closeListeners>>
    /\ UNCHANGED extraVars

\* A force timer fires.
ForceTimeout ==
    /\ exitCode = Running
    /\ TimerDue(forceTimers)
    /\ exitCode' = ForceTimerExit
    /\ lastOp' = Op("forceTimeout", NoKey, NoValue)
    /\ UNCHANGED <<leakyCache, now, cacheHist, clearedSize, response>>
    /\ UNCHANGED <<leakVars, serverVars>>
    /\ UNCHANGED extraVars

ServerNext ==
    \/ Connect
    \/ \E url \in Urls, throws \in BOOLEAN : Request(url, throws)
    \/ ConnectionEnd
    \/ \E signal \in Signals : GracefulShutdown(signal)
    \/ ServerClosed
    \/ TimePasses
    \/ ForceTimeout

ServerSpec == ServerInit /\ [][ServerNext]_vars

\* The event loop keeps running: time passes and a due timer fires.
ServerFairSpec ==
    ServerSpec /\ WF_vars(TimePasses) /\ WF_vars(ForceTimeout)

\* C10: once gracefulShutdown has been called the process eventually exits;
\* it exits with code 0 exactly when the close callback ran (no force timer
\* had fired: the first of the two ends the process), and with code 1 exactly
\* when a force timer fired.
C10_ShutdownExits ==
    /\ (closeListeners > 0) ~> (exitCode # Running)
    /\ [](exitCode = Exit0 <=> lastOp.op = "closeCallback")
    /\ [](exitCode = Exit1 <=> lastOp.op = "forceTimeout")

\* C10 witness: the force timer ended the process while a connection was
\* still open.
C10_Witness ==
    /\ exitCode = Exit1
    /\ lastOp.op = "forceTimeout"
    /\ connections > 0
    /\ closeListeners > 0

\* C18: when gracefulShutdown has been called more than once, the process
\* exits, and no later than ForceCloseDelay seconds after the first call, when
\* the timer armed by that call is due; it has exit code 0 only when the
\* callback given to server.close has run, the server closed and drained.
C18_RepeatedShutdownExits ==
    /\ (closeListeners > 1) ~> (exitCode # Running)
    /\ [](closeListeners > 1 =>
            /\ shutdownAge <= ForceCloseDelay
            /\ forceTimers[1] = ForceCloseDelay - shutdownAge
            /\ exitCode = Exit0 =>
                 /\ lastOp.op = "closeCallback"
                 /\ ~listening
                 /\ connections = 0)

\* C18 witness: after two calls of gracefulShutdown the timer of the first
\* call ended the process, ForceCloseDelay seconds after that call, while the
\* timer of the second call was not yet due and a connection was still open.
C18_Witness ==
    /\ closeListeners > 1
    /\ exitCode = Exit1
    /\ shutdownAge = ForceCloseDelay
    /\ forceTimers[1] = 0
    /\ forceTimers[2] > 0
    /\ connections > 0

\* C12: the handler answers every request once: res.end is called exactly once,
\* with status 500 when handling threw, else 200 for '/', '/about' and
\* '/api/status' and 404 for every other URL.
C12_OneResponsePerRequest ==
    [][\A url \in Urls, throws \in BOOLEAN :
         (lastOp'.key = url /\ Request(url, throws)) =>
           /\ response'.ends = 1
           /\ response'.status =
                IF throws THEN 500
                ELSE IF url \in {"/", "/about", "/api/status"} THEN 200
                ELSE 404]_vars

\* C12 witness: a request whose handling threw was answered, once, with 500.
C12_Witness ==
    /\ lastOp.op = "request"
    /\ response.status = 500
    /\ response.ends = 1

----------------------------------------------------------------------------
\* The memory-metrics demo (memory-metrics-example.js)

\* createLargeObject(size): size MB of data and the time of creation.
CreateLargeObject(size, t) == [sizeMB |-> size, timestamp |-> t]

\* An assignment that keeps the new object only.
ArrayPushReplaces(a, o) == <<o>>

\* Array.prototype.push
ArrayPush(a, o) == Append(a, o)

\* The body sent with a response: objectCount where the handler sends one.
MetricsResponse(status, hasCount, count) ==
    [status |-> status, hasObjectCount |-> hasCount, objectCount |-> count, ends |-> 1]

NoMetricsResponse ==
    [status |-> 0, hasObjectCount |-> FALSE, objectCount |-> 0, ends |-> 0]

MetricsInit ==
    /\ objects = << >>
    /\ allocCount = 0
    /\ now = 0
    /\ exitCode = Running
    /\ lastOp = Op("start", NoKey, NoValue)
    /\ response = NoMetricsResponse
    /\ monitorRuns = 0
    /\ leakCount = 0
    /\ leakyCache = << >>
    /\ clearedSize = 0
    /\ shadow = NoShadow
    /\ NoCacheHist
    /\ NoServer

MetricsRest == <<leakyCache, exitCode, cacheHist, clearedSize, leakCount, serverVars, shadow>>

\* Date.now() moves on.
MetricsTick ==
    /\ now < MaxTime
    /\ now' = now + 1
    /\ UNCHANGED <<objects, allocCount, lastOp, response, monitorRuns, MetricsRest>>

\* GET /allocate
RequestAllocate ==
    /\ allocCount < MaxAllocs
    /\ objects' = ArrayPush(objects, CreateLargeObject(1, now))
    /\ allocCount' = allocCount + 1
    /\ response' = MetricsResponse(200, TRUE, Len(objects'))
    /\ lastOp' = Op("/allocate", NoKey, NoValue)
    /\ UNCHANGED <<now, monitorRuns, MetricsRest>>

\* GET /buffer: the buffer is local to the handler; the body has no objectCount.
RequestBuffer ==
    /\ response' = MetricsResponse(200, FALSE, 0)
    /\ lastOp' = Op("/buffer", NoKey, NoValue)
    /\ UNCHANGED <<objects, allocCount, now, monitorRuns, MetricsRest>>

\* GET /status
RequestMetricsStatus ==
    /\ response' = MetricsResponse(200, TRUE, Len(objects))
    /\ lastOp' = Op("/status", NoKey, NoValue)
    /\ UNCHANGED <<objects, allocCount, now, monitorRuns, MetricsRest>>

\* Any other URL: 404, empty body.
RequestUnknown ==
    /\ response' = MetricsResponse(404, FALSE, 0)
    /\ lastOp' = Op("other", NoKey, NoValue)
    /\ UNCHANGED <<objects, allocCount, now, monitorRuns, MetricsRest>>

\* The 5 s monitor: logs the memory usage and objects.length.
MetricsMonitor ==
    /\ monitorRuns < MaxMonitorRuns
    /\ monitorRuns' = monitorRuns + 1
    /\ lastOp' = Op("monitor", NoKey, NoValue)
    /\ UNCHANGED <<objects, allocCount, now, response, MetricsRest>>

MetricsNext ==
    \/ MetricsTick
    \/ RequestAllocate
    \/ RequestBuffer
    \/ RequestMetricsStatus
    \/ RequestUnknown
    \/ MetricsMonitor

MetricsSpec == MetricsInit /\ [][MetricsNext]_vars

\* C19: objects holds as many objects as /allocate requests were handled; each
\* /allocate adds one and reports the new count; /buffer, /status, other URLs
\* and the monitor leave objects as it is, /status reporting the count; the
\* count never decreases.
C19_ObjectCountCountsAllocations ==
    /\ [](Len(objects) = allocCount)
    /\ [][/\ RequestAllocate =>
               /\ Len(objects') = Len(objects) + 1
               /\ response'.objectCount = allocCount + 1
          /\ (RequestBuffer \/ RequestMetricsStatus \/ RequestUnknown \/ MetricsMonitor) =>
               objects' = objects
          /\ RequestMetricsStatus => response'.objectCount = allocCount
          /\ Len(objects') >= Len(objects)]_vars

\* C19 witness: /status reports two objects after two /allocate requests, a
\* /buffer request or the like in between, and a run of the monitor.
C19_Witness ==
    /\ allocCount = 2
    /\ monitorRuns > 0
    /\ lastOp.op = "/status"
    /\ response.hasObjectCount
    /\ response.objectCount = 2

====
